---- MODULE Spec2Model ----
(***************************************************************************)
(* A model of the BKW reduction and the majority solver of src/src/bkw.rs  *)
(* and of the small linear codes of src/src/codes/guava.                   *)
(*                                                                         *)
(* A sample is a record [a |-> set of the positions of the set bits of a,  *)
(* p |-> product bit].  Bit position j of a is bit j of the packed word:   *)
(* majority looks the unit vector e_j up as the word 1 << j.               *)
(* A Rust Vec is a sequence; Rust index j is element j + 1 of it.          *)
(* Option<T> is a sequence of length at most one: <<>> is None, <<x>> is   *)
(* Some(x).  Option<NonZeroUsize> is a natural number, 0 being None.       *)
(***************************************************************************)
EXTENDS Integers, Sequences, FiniteSets

VARIABLES
    debug,      \* the build has debug assertions and overflow checks
    k,          \* oracle.k
    samples,    \* oracle.samples
    k0,         \* oracle.k when the oracle was handed over
    pool0,      \* oracle.samples when the oracle was handed over
    op,         \* the public function that was called
    a,          \* bkw_reduce's a
    b,          \* bkw_reduce's b
    i,          \* bkw_reduce's loop variable
    pc,         \* position of the call
    panic,      \* the message of the panic that ended the call
    truncates,  \* number of oracle.truncate calls so far
    result,     \* Option<BinVector>: what the solver returned
    tau,        \* the oracle's noise parameter, a fraction <<numerator, denominator>>
    tau0,       \* the noise parameter when the oracle was handed over
    code,       \* the code whose operation is called
    call,       \* the operation of the code that was called
    word,       \* the argument of that call
    ret,        \* what the call produced
    INIT,       \* static INIT: Once
    tables,     \* the static mut table pointers: how often each was written
    threads,    \* per thread: the operation it runs and its position in it
    init_runs,  \* how often the closure handed to INIT.call_once was entered
    firsts_idxs, \* bkw_reduce_inplace: the array of the recorded indexes (0 is None)
    firsts,     \* bkw_reduce_inplace: the array of the pivots taken out of the pool
    partitions, \* bkw_reduce_sorted: the slices the pool was split into
    removing,   \* the indexes that are still to be handed to swap_remove, in order
    pending,    \* the items of the parallel pass no worker has taken yet
    writes,     \* <<item, index>>: the worker of the item wrote samples[index]
    removed,    \* the samples swap_remove has returned, in order
    xored       \* the parallel pass of the iteration has completed

bkw_vars == <<debug, k, samples, k0, pool0, op, a, b, i, pc, panic, truncates, result, tau, tau0>>

code_vars == <<code, call, word, ret>>

once_vars == <<INIT, tables, threads, init_runs>>

pass_vars == <<firsts_idxs, firsts, partitions, removing, pending, writes, removed, xored>>

vars == <<bkw_vars, code_vars, once_vars, pass_vars>>

----------------------------------------------------------------------------
(* Bounds of the model *)

MaxK == 2
MaxSamples == 2
MaxA == 3
MaxB == 2

(* Constants of the program *)

SortThreshold == 22
MajorityMaxK == 20
WordBits == 64

----------------------------------------------------------------------------
(* Samples and the oracle's operations *)

None == <<>>

Some(x) == <<x>>

IsSome(o) == o # <<>>

Unwrap(o) == o[1]

Bit(c) == IF c THEN 1 ELSE 0

count_ones(q) == Cardinality(q.a)

get_product(q) == q.p = 1

get_block(q, n) == {j - n * WordBits : j \in {x \in q.a : x >= n * WordBits /\ x < (n + 1) * WordBits}}

xor_into(q, other) ==
    [a |-> (q.a \ other.a) \cup (other.a \ q.a), p |-> (q.p + other.p) % 2]

RECURSIVE BitsValue(_, _, _)
BitsValue(bits, lo, hi) ==
    IF lo >= hi THEN 0
    ELSE Bit(lo \in bits) + 2 * BitsValue(bits, lo + 1, hi)

query_bits_range(q, lo, hi) == BitsValue(q.a, lo, hi)

sample_truncate(q, kk) == [a |-> {j \in q.a : j < kk}, p |-> q.p]

truncate(o, kk) ==
    [k |-> kk, samples |-> [x \in 1..Len(o.samples) |-> sample_truncate(o.samples[x], kk)]]

\* Vec::truncate in the place of Vec::swap_remove.
swap_remove_truncating(v, idx) == SubSeq(v, 1, idx)

swap_remove(v, idx) ==
    [x \in 1..(Len(v) - 1) |-> IF x = idx + 1 THEN v[Len(v)] ELSE v[x]]

Max(S) == CHOOSE m \in S : \A x \in S : x <= m

Pow2(n) == 2 ^ n

----------------------------------------------------------------------------
(* bkw_reduce_inplace: the indexing variant *)

Ok(s) == [ok |-> TRUE, samples |-> s, panic |-> ""]

Panicked(s, msg) == [ok |-> FALSE, samples |-> s, panic |-> msg]

PanicAssertAB == "a*b <= k"

PanicTooLargeB == "Don't run BKW on too-large b!"

PanicBucketEmpty == "this bucket can't be empty!"

PanicIndex == "index out of bounds"

PanicSliceStart == "slice start index out of range"

PanicSubOverflow == "attempt to subtract with overflow"

\* The first pass over oracle.samples[1..]: j is the Rust index of the sample
\* looked at, fi the firsts_idxs array (0 is None).
RECURSIVE CollectFirsts(_, _, _, _, _)
CollectFirsts(s, lo, hi, j, fi) ==
    IF j >= Len(s) THEN fi
    ELSE LET idx == query_bits_range(s[j + 1], lo, hi) IN
         IF fi[idx] # 0
         THEN IF \E v \in DOMAIN fi : fi[v] = 0
              THEN fi
              ELSE CollectFirsts(s, lo, hi, j + 1, fi)
         ELSE CollectFirsts(s, lo, hi, j + 1, [fi EXCEPT ![idx] = j])

\* The recorded indexes without the rev(): ascending.
RECURSIVE DescendingSome_not_reversed(_)
DescendingSome_not_reversed(S) ==
    IF S = {} THEN <<>>
    ELSE LET least == CHOOSE m \in S : \A x \in S : m <= x
         IN  <<least>> \o DescendingSome_not_reversed(S \ {least})

\* firsts_idxs sorted, reversed and filtered: the recorded indexes, descending.
RECURSIVE DescendingSome(_)
DescendingSome(S) ==
    IF S = {} THEN <<>>
    ELSE <<Max(S)>> \o DescendingSome(S \ {Max(S)})

\* The for_each over the recorded indexes: swap_remove, then firsts[idx] = item.
RECURSIVE RemoveFirsts(_, _, _, _)
RemoveFirsts(s, idxs, pivots, maxj) ==
    IF idxs = <<>> THEN [ok |-> TRUE, samples |-> s, pivots |-> pivots, panic |-> ""]
    ELSE LET idx == Head(idxs)
             item == s[idx + 1]
             rest == swap_remove(s, idx)
         IN  IF idx >= maxj
             THEN [ok |-> FALSE, samples |-> rest, pivots |-> pivots, panic |-> PanicIndex]
             ELSE RemoveFirsts(rest, Tail(idxs), [pivots EXCEPT ![idx] = Some(item)], maxj)

XorFirsts_product_kept(s, lo, hi, pivots) ==
    [x \in 1..Len(s) |->
        LET idx == query_bits_range(s[x], lo, hi) IN
        IF IsSome(pivots[idx])
        THEN [a |-> xor_into(s[x], Unwrap(pivots[idx])).a, p |-> s[x].p]
        ELSE s[x]]

\* The second, parallel pass: every sample is written by its own closure call
\* only and firsts is read only, so the outcome is that of any order.
XorFirsts(s, lo, hi, pivots) ==
    [x \in 1..Len(s) |->
        LET idx == query_bits_range(s[x], lo, hi) IN
        IF IsSome(pivots[idx]) THEN xor_into(s[x], Unwrap(pivots[idx])) ELSE s[x]]

bkw_reduce_inplace(s, kk, ii, bb) ==
    LET maxj == Pow2(bb)
        lo == kk - bb * ii
        hi == kk - bb * (ii - 1)
    IN  IF Len(s) < 1 THEN Panicked(s, PanicSliceStart)
        ELSE LET fi == CollectFirsts(s, lo, hi, 1, [v \in 0..(maxj - 1) |-> 0])
                 rm == RemoveFirsts(s, DescendingSome({fi[v] : v \in DOMAIN fi} \ {0}),
                                    [v \in 0..(maxj - 1) |-> None], maxj)
             IN  IF rm.ok THEN Ok(XorFirsts(rm.samples, lo, hi, rm.pivots))
                 ELSE Panicked(rm.samples, rm.panic)

----------------------------------------------------------------------------
(* bkw_reduce_sorted: the sorting variant *)

RECURSIVE Permutations(_)
Permutations(S) ==
    IF S = {} THEN {<<>>}
    ELSE UNION {{<<x>> \o t : t \in Permutations(S \ {x})} : x \in S}

\* No sort: any arrangement of the pool.
par_sort_unstable_by_key_unsorted(s, lo, hi) ==
    {[x \in 1..Len(s) |-> s[f[x]]] : f \in Permutations(1..Len(s))}

\* An unstable sort leaves samples of equal key in an unspecified order: every
\* arrangement of the pool that is ordered by key is a possible outcome.
par_sort_unstable_by_key(s, lo, hi) ==
    {t \in {[x \in 1..Len(s) |-> s[f[x]]] : f \in Permutations(1..Len(s))} :
        \A x \in 1..(Len(t) - 1) :
            query_bits_range(t[x], lo, hi) <= query_bits_range(t[x + 1], lo, hi)}

\* slice::partition_point on a slice whose elements of key current_key come first.
partition_point(s, current_key, lo, hi) ==
    IF \E x \in 1..Len(s) : query_bits_range(s[x], lo, hi) # current_key
    THEN (CHOOSE x \in 1..Len(s) :
            /\ query_bits_range(s[x], lo, hi) # current_key
            /\ \A y \in 1..(x - 1) : query_bits_range(s[y], lo, hi) = current_key) - 1
    ELSE Len(s)

\* Partitions that reach one sample into the next partition.
RECURSIVE Partitions_overlapping(_, _, _, _)
Partitions_overlapping(t, lo, hi, start) ==
    IF start >= Len(t) THEN <<>>
    ELSE LET slice == SubSeq(t, start + 1, Len(t))
             current_key == query_bits_range(slice[1], lo, hi)
             take_until == partition_point(slice, current_key, lo, hi)
         IN  <<[start |-> start,
                len |-> IF take_until < Len(slice) THEN take_until + 1 ELSE take_until]>>
                 \o Partitions_overlapping(t, lo, hi, start + take_until)

\* The while loop that splits the pool: each partition is [start |-> the Rust
\* index of its first sample, len |-> its length].
RECURSIVE Partitions(_, _, _, _)
Partitions(t, lo, hi, start) ==
    IF start >= Len(t) THEN <<>>
    ELSE LET slice == SubSeq(t, start + 1, Len(t))
             current_key == query_bits_range(slice[1], lo, hi)
             take_until == partition_point(slice, current_key, lo, hi)
         IN  <<[start |-> start, len |-> take_until]>>
                 \o Partitions(t, lo, hi, start + take_until)

\* The parallel pass over the partitions, which are disjoint slices.
XorPartitions(t, parts) ==
    [x \in 1..Len(t) |->
        LET part == CHOOSE n \in 1..Len(parts) :
                        /\ parts[n].start < x
                        /\ x <= parts[n].start + parts[n].len
            first == t[parts[part].start + 1]
        IN  IF x = parts[part].start + 1 THEN t[x] ELSE xor_into(t[x], first)]

\* The indexes of the partitions' first samples, last partition first.
FirstsOfPartitions(parts) ==
    [n \in 1..Len(parts) |-> parts[Len(parts) + 1 - n].start]

RECURSIVE SwapRemoveAll(_, _)
SwapRemoveAll(s, idxs) ==
    IF idxs = <<>> THEN s
    ELSE SwapRemoveAll(swap_remove(s, Head(idxs)), Tail(idxs))

\* The set of the pools the call can leave.
bkw_reduce_sorted(s, kk, ii, bb) ==
    LET lo == kk - ii * bb
        hi == kk
    IN  {LET parts == Partitions(t, lo, hi, 0)
         IN  SwapRemoveAll(XorPartitions(t, parts), FirstsOfPartitions(parts)) :
            t \in par_sort_unstable_by_key(s, lo, hi)}

----------------------------------------------------------------------------
(* majority *)

\* The loop that fills count_sum, a map from block 0 of a to <<count, sum>>.
RECURSIVE CountSum(_, _)
CountSum(s, count_sum) ==
    IF s = <<>> THEN count_sum
    ELSE LET query == Head(s)
             key == get_block(query, 0)
             old == IF key \in DOMAIN count_sum THEN count_sum[key] ELSE <<0, 0>>
             new == <<old[1] + 1, old[2] + Bit(get_product(query))>>
         IN  CountSum(Tail(s),
                 [x \in DOMAIN count_sum \cup {key} |-> IF x = key THEN new ELSE count_sum[x]])

Lookup_or_default(count_sum, key) ==
    IF key \in DOMAIN count_sum THEN Some(count_sum[key]) ELSE Some(<<0, 0>>)

Lookup(count_sum, key) ==
    IF key \in DOMAIN count_sum THEN Some(count_sum[key]) ELSE None

MajorityBit_tie_is_one(count, sum) == Bit(count <= 2 * sum)

MajorityBit(count, sum) == Bit(count < 2 * sum)

\* The while loop over i = 1 << pos, for as long as i < 1 << b.
RECURSIVE MajorityLoop(_, _, _, _)
MajorityLoop(count_sum, pos, bb, res) ==
    IF pos >= bb THEN [ok |-> TRUE, result |-> Some(res), panic |-> ""]
    ELSE LET entry == Lookup(count_sum, {pos}) IN
         IF ~IsSome(entry) THEN [ok |-> FALSE, result |-> None, panic |-> PanicBucketEmpty]
         ELSE MajorityLoop(count_sum, pos + 1, bb,
                  Append(res, MajorityBit(Unwrap(entry)[1], Unwrap(entry)[2])))

DebugAssertB(dbg, bb) == dbg => bb <= MajorityMaxK

\* The bound 1 << b of the loop, as the number of positions it visits: a shift
\* by 64 or more wraps the shift amount where overflow is not checked, and where
\* it is checked the assertion on b has failed before.
ShiftAmount(bb) == bb % WordBits

majority(s, kk, dbg) ==
    IF ~DebugAssertB(dbg, kk) THEN [ok |-> FALSE, result |-> None, panic |-> PanicTooLargeB]
    ELSE MajorityLoop(
             CountSum(SelectSeq(s, LAMBDA q : count_ones(q) = 1), <<>>),
             0, ShiftAmount(kk), <<>>)

----------------------------------------------------------------------------
(* The oracles handed to the program *)

BigK == MajorityMaxK + 1

SortedK == 2 * SortThreshold

Dimensions == (1..MaxK) \cup {BigK, SortedK}

\* Beyond MaxK only the lowest and the highest bit of a vary.
Positions(kk) == IF kk <= MaxK THEN 0..(kk - 1) ELSE {0, kk - 1}

SampleSpace(kk) == [a : SUBSET Positions(kk), p : 0..1]

Pools(kk) == UNION {[1..n -> SampleSpace(kk)] : n \in 0..MaxSamples}

\* One sample per unit vector, in order; the product bit is 1 at the positions in ones.
UnitPool(kk, ones) == [x \in 1..kk |-> [a |-> {x - 1}, p |-> Bit((x - 1) \in ones)]]

InitialPools(kk) ==
    IF kk = BigK THEN {UnitPool(kk, ones) : ones \in {{}, {0}, 0..(kk - 1)}}
    ELSE Pools(kk)

AValues == 0..MaxA

BValues == (0..MaxB) \cup {SortThreshold}

\* The noise parameters an oracle is constructed with.
Taus == {<<1, 4>>, <<1, 8>>}

\* No operation of a code has been called.
NoWord == [len |-> 0, bits |-> {}, p |-> 0]

NoRet == [kind |-> "None", len |-> 0, bits |-> {}, p |-> 0]

NoCodeCall == code = "" /\ call = "none" /\ word = NoWord /\ ret = NoRet

\* The statics of a code's file: a fresh Once and four null pointers.
TablePointers == {"GENERATOR_MATRIX", "PARITY_MATRIX", "PARITY_MATRIX_T", "SYNDROME_MAP"}

NoThreads ==
    /\ INIT = "INCOMPLETE"
    /\ tables = [ptr \in TablePointers |-> 0]
    /\ threads = <<>>
    /\ init_runs = 0

\* No pass of an iteration is under way.
NoPasses ==
    /\ firsts_idxs = <<>>
    /\ firsts = <<>>
    /\ partitions = <<>>
    /\ removing = <<>>
    /\ pending = {}
    /\ writes = {}
    /\ removed = <<>>
    /\ xored = FALSE

Init ==
    /\ debug \in BOOLEAN
    /\ k \in Dimensions
    /\ samples \in InitialPools(k)
    /\ k0 = k
    /\ pool0 = samples
    /\ op = "none"
    /\ a = 0
    /\ b = 0
    /\ i = 0
    /\ pc = "idle"
    /\ panic = ""
    /\ truncates = 0
    /\ result = None
    /\ tau \in Taus
    /\ tau0 = tau
    /\ NoCodeCall
    /\ NoThreads
    /\ NoPasses

----------------------------------------------------------------------------
(* bkw_reduce, bkw, partition_reduce *)

AssertAB_off_by_one(aa, bb, kk) == aa * bb <= kk + 1

AssertAB(aa, bb, kk) == aa * bb <= kk

\* k - (a - 1) * b in usize.  With a = 0 the subtraction a - 1 overflows: a build
\* with overflow checks panics, any other wraps, and the wrapped value of the
\* whole expression is k + b.
SubOverflows(aa) == aa < 1

NewK_one_window_more(kk, aa, bb) == IF SubOverflows(aa) THEN kk + bb ELSE kk - aa * bb

NewK(kk, aa, bb) == IF SubOverflows(aa) THEN kk + bb ELSE kk - (aa - 1) * bb

\* The entry of bkw_reduce, up to the loop.
bkw_reduce_enter(name, aa, bb) ==
    /\ pc = "idle"
    /\ op' = name
    /\ a' = aa
    /\ b' = bb
    /\ IF AssertAB(aa, bb, k)
       THEN pc' = "iterate" /\ i' = 1 /\ panic' = panic
       ELSE pc' = "panicked" /\ i' = i /\ panic' = PanicAssertAB
    /\ UNCHANGED <<debug, k, samples, k0, pool0, truncates, result>>
    /\ UNCHANGED <<tau, tau0, code_vars, once_vars, pass_vars>>

bkw == \E aa \in AValues, bb \in BValues : bkw_reduce_enter("bkw", aa, bb)

partition_reduce == \E bb \in BValues : bkw_reduce_enter("partition_reduce", 2, bb)

\* One pass of the loop with b < 22.
IterateInplace ==
    /\ pc = "iterate"
    /\ i < a
    /\ b < SortThreshold
    /\ LET out == bkw_reduce_inplace(samples, k, i, b) IN
        /\ samples' = out.samples
        /\ IF out.ok
           THEN pc' = "iterate" /\ i' = i + 1 /\ panic' = panic
           ELSE pc' = "panicked" /\ i' = i /\ panic' = out.panic
    /\ UNCHANGED <<debug, k, k0, pool0, op, a, b, truncates, result>>
    /\ UNCHANGED <<tau, tau0, code_vars, once_vars, pass_vars>>

\* One pass of the loop with b >= 22.
IterateSorted ==
    /\ pc = "iterate"
    /\ i < a
    /\ ~(b < SortThreshold)
    /\ \E out \in bkw_reduce_sorted(samples, k, i, b) : samples' = out
    /\ i' = i + 1
    /\ UNCHANGED <<debug, k, k0, pool0, op, a, b, pc, panic, truncates, result>>
    /\ UNCHANGED <<tau, tau0, code_vars, once_vars, pass_vars>>

\* What bkw_reduce does after the loop.
bkw_reduce_finish_k_only(o, kk, aa, bb) == [o EXCEPT !.k = NewK(kk, aa, bb)]

\* kk is the k that bkw_reduce read on entry.
bkw_reduce_finish(o, kk, aa, bb) == truncate(o, NewK(kk, aa, bb))

Truncate ==
    /\ pc = "iterate"
    /\ ~(i < a)
    /\ IF debug /\ SubOverflows(a)
       THEN /\ pc' = "panicked"
            /\ panic' = PanicSubOverflow
            /\ UNCHANGED <<k, samples, truncates>>
       ELSE LET o == bkw_reduce_finish([k |-> k, samples |-> samples], k0, a, b) IN
            /\ k' = o.k
            /\ samples' = o.samples
            /\ truncates' = truncates + 1
            /\ pc' = IF op = "bkw" THEN "majority" ELSE "returned"
            /\ panic' = panic
    /\ UNCHANGED <<debug, k0, pool0, op, a, b, i, result>>
    /\ UNCHANGED <<tau, tau0, code_vars, once_vars, pass_vars>>

Solve ==
    LET out == majority(samples, k, debug) IN
    /\ result' = out.result
    /\ IF out.ok
       THEN pc' = "returned" /\ panic' = panic
       ELSE pc' = "panicked" /\ panic' = out.panic
    /\ UNCHANGED <<debug, k, samples, k0, pool0, a, b, i, truncates>>
    /\ UNCHANGED <<tau, tau0, code_vars, once_vars, pass_vars>>

\* bkw's call of majority on the reduced oracle.
BkwMajority ==
    /\ pc = "majority"
    /\ op' = op
    /\ Solve

\* majority called on the oracle as handed over.
CallMajority ==
    /\ pc = "idle"
    /\ op' = "majority"
    /\ Solve

Next ==
    \/ bkw
    \/ partition_reduce
    \/ IterateInplace
    \/ IterateSorted
    \/ Truncate
    \/ BkwMajority
    \/ CallMajority

Spec == Init /\ [][Next]_vars

----------------------------------------------------------------------------
(* The two variants as functions of the same pool: each is applied alone to  *)
(* a pool that iteration i of the loop can meet, one whose windows of the    *)
(* earlier iterations are zero.                                              *)

VariantInputs ==
    {in \in [k : 1..MaxK, b : 1..MaxB, i : 1..2] : in.i * in.b <= in.k}

VariantPools(kk, ii, bb) ==
    {s \in Pools(kk) :
        \A x \in 1..Len(s) : query_bits_range(s[x], kk - (ii - 1) * bb, kk) = 0}

VInit ==
    /\ debug = FALSE
    /\ \E in \in VariantInputs :
        /\ k = in.k
        /\ b = in.b
        /\ i = in.i
        /\ a = in.i + 1
        /\ samples \in VariantPools(in.k, in.i, in.b)
    /\ k0 = k
    /\ pool0 = samples
    /\ op = "none"
    /\ pc = "variant"
    /\ panic = ""
    /\ truncates = 0
    /\ result = None
    /\ tau \in Taus
    /\ tau0 = tau
    /\ NoCodeCall
    /\ NoThreads
    /\ NoPasses

ApplyInplace ==
    /\ pc = "variant"
    /\ op' = "bkw_reduce_inplace"
    /\ LET out == bkw_reduce_inplace(samples, k, i, b) IN
        /\ samples' = out.samples
        /\ IF out.ok
           THEN pc' = "returned" /\ panic' = panic
           ELSE pc' = "panicked" /\ panic' = out.panic
    /\ UNCHANGED <<debug, k, k0, pool0, a, b, i, truncates, result>>
    /\ UNCHANGED <<tau, tau0, code_vars, once_vars, pass_vars>>

ApplySorted ==
    /\ pc = "variant"
    /\ op' = "bkw_reduce_sorted"
    /\ \E out \in bkw_reduce_sorted(samples, k, i, b) : samples' = out
    /\ pc' = "returned"
    /\ UNCHANGED <<debug, k, k0, pool0, a, b, i, panic, truncates, result>>
    /\ UNCHANGED <<tau, tau0, code_vars, once_vars, pass_vars>>

VNext ==
    \/ ApplyInplace
    \/ ApplySorted

SpecVariants == VInit /\ [][VNext]_vars

----------------------------------------------------------------------------
(* Properties *)

\* bkw_reduce has returned (to bkw, or to the caller of partition_reduce).
ReduceReturned ==
    /\ op \in {"bkw", "partition_reduce"}
    /\ \/ pc \in {"majority", "returned"}
       \/ pc = "panicked" /\ panic \in {PanicTooLargeB, PanicBucketEmpty}

\* majority has run, on the oracle <<k, samples>>.
MajorityRan ==
    /\ op \in {"bkw", "majority"}
    /\ \/ pc = "returned"
       \/ pc = "panicked" /\ panic \in {PanicTooLargeB, PanicBucketEmpty}

Inner(bits, secret) == Cardinality(bits \cap secret) % 2

NoiseFree(pool, secret) == \A x \in 1..Len(pool) : pool[x].p = Inner(pool[x].a, secret)

FirstBits(secret, n) == [j \in 1..n |-> Bit((j - 1) \in secret)]

CountAt(s, j) == Cardinality({x \in 1..Len(s) : s[x].a = {j}})

SumAt(s, j) == Cardinality({x \in 1..Len(s) : s[x].a = {j} /\ s[x].p = 1})

Occurrences(s, q) == Cardinality({x \in 1..Len(s) : s[x] = q})

SameMultiset(s, t) ==
    /\ Len(s) = Len(t)
    /\ \A x \in 1..Len(s) : Occurrences(s, s[x]) = Occurrences(t, s[x])

\* C1: after iteration j = i - 1 of bkw_reduce, every sample left in the pool has
\* all bits of the window W_j = [k - j*b, k - (j-1)*b) equal to zero.
C1_WindowZeroAfterIteration ==
    (pc = "iterate" /\ i > 1) =>
        \A x \in 1..Len(samples) :
            query_bits_range(samples[x], k - (i - 1) * b, k - (i - 2) * b) = 0

\* C2: on a pool without noise (p = <a, s> for every sample), bkw with a >= 1
\* returns, when majority does not abort, the first k - (a-1)*b bits of s.
C2_BkwRecoversSecret ==
    (op = "bkw" /\ pc = "returned" /\ a >= 1) =>
        \A secret \in SUBSET Positions(k0) :
            NoiseFree(pool0, secret) => result = Some(FirstBits(secret, k0 - (a - 1) * b))

\* C3: bkw_reduce with a >= 1 leaves k alone while it iterates and truncates
\* exactly once, after the last iteration, to k - (a-1)*b.
C3_TruncateOnceAtEnd ==
    /\ truncates <= 1
    /\ truncates = 0 => k = k0
    /\ pc = "iterate" => truncates = 0
    /\ (ReduceReturned /\ a >= 1) => (truncates = 1 /\ k = k0 - (a - 1) * b)

\* C3 witness: a returned reduction that iterated and shrank the dimension.
C3_Witness == ReduceReturned /\ a >= 2 /\ b >= 1 /\ i = a /\ k < k0

\* C4: when bkw_reduce has returned with dimension k, no sample of the pool
\* has a bit of a at a position >= k.
C4_NoBitsAtOrAboveK ==
    ReduceReturned => \A x \in 1..Len(samples) : \A j \in samples[x].a : j < k

\* C4 witness: a sample that no iteration touched (it is alone in the pool) had
\* a bit at or above the new dimension, and has lost it.
C4_Witness ==
    /\ op = "partition_reduce"
    /\ pc = "returned"
    /\ Len(pool0) = 1
    /\ Len(samples) = 1
    /\ \E j \in pool0[1].a : j >= k
    /\ samples[1].a # pool0[1].a

C6_VariantsAgree ==
    (op = "bkw_reduce_inplace" /\ pc = "returned") =>
        \E t \in bkw_reduce_sorted(pool0, k, i, b) : SameMultiset(samples, t)

\* C7: a call of bkw or partition_reduce with a*b > k fails on the assertion of
\* bkw_reduce, with the pool and k as they were handed over, and the assertion
\* fails on no other call.
C7_ConfigErrorUpFront ==
    /\ (op \in {"bkw", "partition_reduce"} /\ a * b > k0) =>
            /\ pc = "panicked"
            /\ panic = PanicAssertAB
            /\ samples = pool0
            /\ k = k0
            /\ truncates = 0
            /\ result = None
    /\ panic = PanicAssertAB => (op \in {"bkw", "partition_reduce"} /\ a * b > k0)

\* C7 witness: partition_reduce of a pool with samples failed on the assertion.
C7_Witness == op = "partition_reduce" /\ panic = PanicAssertAB /\ Len(pool0) > 0

\* C8: with k <= 20 and a sample for every unit vector, majority returns the
\* vector of length k whose bit j is 1 iff 2 * sum_j > count_j, the counts
\* taken over the samples with a = e_j only.
C8_MajorityVote ==
    (MajorityRan /\ k <= MajorityMaxK /\ \A j \in 0..(k - 1) : CountAt(samples, j) > 0) =>
        /\ pc = "returned"
        /\ result = Some([j \in 1..k |->
                            Bit(2 * SumAt(samples, j - 1) > CountAt(samples, j - 1))])

\* C8 witness: majority returned with a bucket in a tie, whose bit is 0.
C8_Witness ==
    /\ MajorityRan
    /\ pc = "returned"
    /\ \E j \in 0..(k - 1) :
        /\ CountAt(samples, j) = 2
        /\ SumAt(samples, j) = 1
        /\ Unwrap(result)[j + 1] = 0

\* C9: with k <= 20 and no sample for some unit vector e_j, j < k, majority
\* aborts on the empty bucket and no vector is returned.
C9_EmptyBucketAborts ==
    (MajorityRan /\ k <= MajorityMaxK /\ \E j \in 0..(k - 1) : CountAt(samples, j) = 0) =>
        /\ pc = "panicked"
        /\ panic = PanicBucketEmpty
        /\ result = None

\* C9 witness: bkw aborted on an empty bucket after a bucket that had samples.
C9_Witness ==
    /\ op = "bkw"
    /\ a >= 1
    /\ panic = PanicBucketEmpty
    /\ k <= MajorityMaxK
    /\ CountAt(samples, 0) > 0
    /\ result = None

\* C10: majority on an oracle of dimension k > 20 is rejected: it fails on the
\* assertion on the dimension and returns no vector.
C10_TooLargeRejected ==
    (MajorityRan /\ k > MajorityMaxK) =>
        /\ pc = "panicked"
        /\ panic = PanicTooLargeB
        /\ result = None


----------------------------------------------------------------------------
(* m4ri_rust's BinVector and BinMatrix and the hash map, as the files of     *)
(* src/src/codes/guava use them.  A BinVector is [len, bits], bits the set   *)
(* of the positions that hold 1.  A BinMatrix is [nrows, ncols, rows], where *)
(* rows[r + 1] is the set of the columns in which row r holds 1.  Storage is *)
(* a sequence of 64-bit words; bit j of word w is position 64 * w + j.       *)

\* The positions of the bits set in a machine word, counted from position j.
RECURSIVE WordToBits(_, _)
WordToBits(w, j) ==
    IF w = 0 THEN {}
    ELSE (IF w % 2 = 1 THEN {j} ELSE {}) \cup WordToBits(w \div 2, j + 1)

\* The machine word in which exactly these bits are set.
RECURSIVE BitsToWord(_)
BitsToWord(bits) ==
    IF bits = {} THEN 0
    ELSE LET j == CHOOSE x \in bits : TRUE IN Pow2(j) + BitsToWord(bits \ {j})

\* The positions set in a slice of words.
SliceBits(words) ==
    UNION {WordToBits(words[w], (w - 1) * WordBits) : w \in 1..Len(words)}

\* BinMatrix::from_slices(rows, ncols): one slice of words for each row.
from_slices(slices, ncols) ==
    [nrows |-> Len(slices),
     ncols |-> ncols,
     rows |-> [r \in 1..Len(slices) |-> {j \in SliceBits(slices[r]) : j < ncols}]]

\* matrix.transposed()
transposed(m) ==
    [nrows |-> m.ncols,
     ncols |-> m.nrows,
     rows |-> [r \in 1..m.ncols |-> {cc \in 0..(m.nrows - 1) : (r - 1) \in m.rows[cc + 1]}]]

SymDiff(x, y) == (x \ y) \cup (y \ x)

\* The product with OR in the place of XOR.
vec_mul_saturating(v, m) ==
    [len |-> m.ncols,
     bits |-> {col \in 0..(m.ncols - 1) : \E j \in v.bits : col \in m.rows[j + 1]}]

\* The row vector v times the matrix m over GF(2), for v.len = m.nrows.
vec_mul(v, m) ==
    [len |-> m.ncols,
     bits |-> {col \in 0..(m.ncols - 1) :
                  Cardinality({j \in v.bits : col \in m.rows[j + 1]}) % 2 = 1}]

\* The product of two matrices over GF(2), for x.ncols = m.nrows.
mat_mul(x, m) ==
    [nrows |-> x.nrows,
     ncols |-> m.ncols,
     rows |-> [r \in 1..x.nrows |-> vec_mul([len |-> x.ncols, bits |-> x.rows[r]], m).bits]]

\* c + &error
vec_add(x, y) == [len |-> x.len, bits |-> SymDiff(x.bits, y.bits)]

\* BinVector::truncate
vec_truncate(v, n) == [len |-> IF v.len < n THEN v.len ELSE n, bits |-> {j \in v.bits : j < n}]

as_u64_last_bit_first(v) == BitsToWord({v.len - 1 - j : j \in v.bits})

\* he.as_u64(): the vector's first storage word.
as_u64(v) == BitsToWord({j \in v.bits : j < WordBits})

get_word_unchecked_of_zero_row(m, r, w) == 0

\* he.get_word_unchecked(row, word)
get_word_unchecked(m, r, w) ==
    BitsToWord({j - w * WordBits : j \in {x \in m.rows[r + 1] : x >= w * WordBits /\ x < (w + 1) * WordBits}})

\* The keys of a map built by a sequence of inserts.
MapKeys(inserts) == {inserts[x][1] : x \in 1..Len(inserts)}

\* map[&key] for a key of the map: the value of the last insert of that key.
MapIndex(inserts, key) == inserts[Max({x \in 1..Len(inserts) : inserts[x][1] = key})][2]

----------------------------------------------------------------------------
(* The tables that init() of each code file builds *)

GENERATOR_MATRIX_7_2_rows_swapped == from_slices(<<<<122>>, <<101>>>>, 7)

GENERATOR_MATRIX_7_2 == from_slices(<<<<101>>, <<122>>>>, 7)

PARITY_MATRIX_7_2 == from_slices(<<<<81>>, <<18>>, <<84>>, <<24>>, <<96>>>>, 7)

\* The inserts into the map, in the order of the source: <<syndrome, error>>.
SYNDROME_MAP_7_2 ==
    <<
       <<0, <<0>>>>, <<1, <<1>>>>, <<2, <<2>>>>, <<4, <<4>>>>,
       <<8, <<8>>>>, <<15, <<16>>>>, <<16, <<32>>>>, <<21, <<64>>>>,
       <<3, <<3>>>>, <<5, <<5>>>>, <<9, <<9>>>>, <<14, <<17>>>>,
       <<17, <<33>>>>, <<20, <<65>>>>, <<6, <<6>>>>, <<10, <<10>>>>,
       <<13, <<18>>>>, <<18, <<34>>>>, <<23, <<66>>>>, <<12, <<12>>>>,
       <<11, <<20>>>>, <<7, <<24>>>>, <<24, <<40>>>>, <<29, <<72>>>>,
       <<31, <<48>>>>, <<26, <<80>>>>, <<19, <<35>>>>, <<22, <<67>>>>,
       <<25, <<41>>>>, <<28, <<73>>>>, <<30, <<49>>>>, <<27, <<81>>>>
    >>

SYNDROME_MAP_9_6_heavy_leader ==
    <<
       <<0, <<65>>>>, <<1, <<1>>>>, <<2, <<128>>>>, <<4, <<256>>>>,
       <<3, <<129>>>>, <<5, <<257>>>>, <<6, <<384>>>>, <<7, <<385>>>>
    >>

GENERATOR_MATRIX_9_6 == from_slices(<<<<65>>, <<66>>, <<68>>, <<72>>, <<80>>, <<96>>>>, 9)

PARITY_MATRIX_9_6 == from_slices(<<<<127>>, <<128>>, <<256>>>>, 9)

\* The inserts into the map, in the order of the source: <<syndrome, error>>.
SYNDROME_MAP_9_6 ==
    <<
       <<0, <<0>>>>, <<1, <<1>>>>, <<2, <<128>>>>, <<4, <<256>>>>,
       <<3, <<129>>>>, <<5, <<257>>>>, <<6, <<384>>>>, <<7, <<385>>>>
    >>

GENERATOR_MATRIX_10_5 == from_slices(<<<<801>>, <<450>>, <<708>>, <<840>>, <<912>>>>, 10)

PARITY_MATRIX_10_5 == from_slices(<<<<33>>, <<482>>, <<740>>, <<840>>, <<912>>>>, 10)

\* The inserts into the map, in the order of the source: <<syndrome, error>>.
SYNDROME_MAP_10_5 ==
    <<
       <<0, <<0>>>>, <<1, <<1>>>>, <<2, <<2>>>>, <<4, <<4>>>>,
       <<8, <<8>>>>, <<16, <<16>>>>, <<7, <<32>>>>, <<14, <<64>>>>,
       <<22, <<128>>>>, <<26, <<256>>>>, <<28, <<512>>>>, <<3, <<3>>>>,
       <<5, <<5>>>>, <<9, <<9>>>>, <<17, <<17>>>>, <<6, <<33>>>>,
       <<15, <<65>>>>, <<23, <<129>>>>, <<27, <<257>>>>, <<29, <<513>>>>,
       <<10, <<10>>>>, <<18, <<18>>>>, <<12, <<66>>>>, <<20, <<130>>>>,
       <<24, <<258>>>>, <<30, <<514>>>>, <<11, <<11>>>>, <<19, <<19>>>>,
       <<13, <<67>>>>, <<21, <<131>>>>, <<25, <<259>>>>, <<31, <<515>>>>
    >>

GENERATOR_MATRIX_11_7 == from_slices(<<<<641>>, <<386>>, <<1924>>, <<904>>, <<1424>>, <<1696>>, <<1856>>>>, 11)

PARITY_MATRIX_11_7 == from_slices(<<<<481>>, <<722>>, <<1140>>, <<2040>>>>, 11)

\* The inserts into the map, in the order of the source: <<syndrome, error>>.
SYNDROME_MAP_11_7 ==
    <<
       <<0, <<0>>>>, <<1, <<1>>>>, <<2, <<2>>>>, <<4, <<4>>>>,
       <<8, <<8>>>>, <<14, <<16>>>>, <<13, <<32>>>>, <<15, <<64>>>>,
       <<11, <<128>>>>, <<9, <<256>>>>, <<10, <<512>>>>, <<12, <<1024>>>>,
       <<3, <<3>>>>, <<5, <<5>>>>, <<6, <<6>>>>, <<7, <<72>>>>
    >>

----------------------------------------------------------------------------
(* The operations of a code; cd names the file they are taken from *)

Codes == {"7_2", "9_6", "10_5", "11_7"}

length(cd) == CASE cd = "7_2" -> 7 [] cd = "9_6" -> 9 [] cd = "10_5" -> 10 [] cd = "11_7" -> 11

dimension(cd) == CASE cd = "7_2" -> 2 [] cd = "9_6" -> 6 [] cd = "10_5" -> 5 [] cd = "11_7" -> 7

generator_matrix(cd) ==
    CASE cd = "7_2" -> GENERATOR_MATRIX_7_2
      [] cd = "9_6" -> GENERATOR_MATRIX_9_6
      [] cd = "10_5" -> GENERATOR_MATRIX_10_5
      [] cd = "11_7" -> GENERATOR_MATRIX_11_7

parity_check_matrix(cd) ==
    CASE cd = "7_2" -> PARITY_MATRIX_7_2
      [] cd = "9_6" -> PARITY_MATRIX_9_6
      [] cd = "10_5" -> PARITY_MATRIX_10_5
      [] cd = "11_7" -> PARITY_MATRIX_11_7

\* PARITY_MATRIX_T is built in init() as matrix.transposed().
parity_check_matrix_transposed(cd) == transposed(parity_check_matrix(cd))

SYNDROME_MAP(cd) ==
    CASE cd = "7_2" -> SYNDROME_MAP_7_2
      [] cd = "9_6" -> SYNDROME_MAP_9_6
      [] cd = "10_5" -> SYNDROME_MAP_10_5
      [] cd = "11_7" -> SYNDROME_MAP_11_7

\* The literal of decode_to_code's with_capacity and set_len and of
\* decode_slice's excess-bit mask.
ErrorLen(cd) == CASE cd = "7_2" -> 7 [] cd = "9_6" -> 9 [] cd = "10_5" -> 10 [] cd = "11_7" -> 11

\* The literal of decode_to_message's truncate.
MessageLen(cd) == CASE cd = "7_2" -> 2 [] cd = "9_6" -> 6 [] cd = "10_5" -> 5 [] cd = "11_7" -> 7


\* What a call produced: a returned value or a panic.
CodeOk(v) == [kind |-> "Ok", len |-> v.len, bits |-> v.bits, p |-> 0]

CodePanic == [kind |-> "Panic", len |-> 0, bits |-> {}, p |-> 0]

\* decode_to_code.  No path of it returns Err.  Handed a vector of another
\* length, a build with debug assertions panics at the first debug_assert_eq;
\* any other build reaches the product with the transposed parity matrix,
\* where the matrix library aborts on the mismatch of the dimensions.
decode_to_code(cd, c, dbg) ==
    LET map == SYNDROME_MAP(cd)
        Ht == parity_check_matrix_transposed(cd)
    IN  IF dbg /\ c.len # length(cd) THEN CodePanic
        ELSE IF c.len # Ht.nrows THEN CodePanic
        ELSE LET he == vec_mul(c, Ht)
                 key == as_u64(he)
             IN  IF key \notin MapKeys(map) THEN CodePanic
                 ELSE LET errbytes == MapIndex(map, key)
                          error == [len |-> ErrorLen(cd), bits |-> SliceBits(errbytes)]
                          res == vec_add(c, error)
                      IN  IF dbg /\ (\/ Len(errbytes) # 1
                                     \/ error.len # length(cd)
                                     \/ res.len # length(cd)
                                     \/ vec_mul(res, Ht).bits # {})
                          THEN CodePanic
                          ELSE CodeOk(res)

decode_to_message_untruncated(cd, c, dbg) == decode_to_code(cd, c, dbg)

decode_to_message(cd, c, dbg) ==
    LET codeword == decode_to_code(cd, c, dbg)
    IN  IF codeword.kind = "Ok" THEN CodeOk(vec_truncate(codeword, MessageLen(cd))) ELSE codeword

\* c[n / 64] & !((1 << n) - 1) != 0
ExcessBits(c, n) == \E j \in WordToBits(c[n \div WordBits + 1], 0) : j >= n % WordBits

OrSlices(c, error) ==
    [w \in 1..Len(c) |->
        IF w <= Len(error)
        THEN BitsToWord(WordToBits(c[w], 0) \cup WordToBits(error[w], 0))
        ELSE c[w]]

\* c ^= error over the zipped words.
XorSlices(c, error) ==
    [w \in 1..Len(c) |->
        IF w <= Len(error)
        THEN BitsToWord(SymDiff(WordToBits(c[w], 0), WordToBits(error[w], 0)))
        ELSE c[w]]

\* decode_slice on the storage c; the value is the storage afterwards.
decode_slice(cd, c, dbg) ==
    IF dbg /\ ExcessBits(c, ErrorLen(cd)) THEN CodePanic
    ELSE LET map == SYNDROME_MAP(cd)
             he == mat_mul(from_slices(<<c>>, length(cd)), parity_check_matrix_transposed(cd))
             key == get_word_unchecked(he, 0, 0)
         IN  IF key \notin MapKeys(map) THEN CodePanic
             ELSE CodeOk([len |-> WordBits * Len(c),
                          bits |-> SliceBits(XorSlices(c, MapIndex(map, key)))])

\* Sample::from_binvector
from_binvector(v, p) == [a |-> v.bits, p |-> p]

\* The storage of a sample's a, for a of at most one word.
get_sample_mut(s) == <<BitsToWord(s.a)>>

\* BinaryCode::decode_sample: decode the sample's storage in place, then keep
\* the first dimension bits.
decode_sample(cd, s, dbg) ==
    LET r == decode_slice(cd, get_sample_mut(s), dbg)
    IN  IF r.kind = "Ok"
        THEN LET q == sample_truncate([a |-> r.bits, p |-> s.p], dimension(cd))
             IN  [kind |-> "Ok", len |-> WordBits, bits |-> q.a, p |-> q.p]
        ELSE r

----------------------------------------------------------------------------
(* The operations of a code applied to a received vector *)

\* How far the length of a vector handed to a code may be off.
MaxLenOff == 1

Vectors(n) == {[len |-> n, bits |-> s, p |-> pp] : s \in SUBSET (0..(n - 1)), pp \in 0..1}

WrongLengths(n) == {l \in (n - MaxLenOff)..(n + MaxLenOff) : l # n /\ l >= 0}

\* The vectors of the code's length, and the all-zero and all-one vectors of
\* the lengths next to it.
Received(cd) ==
    Vectors(length(cd)) \cup
    UNION {{[len |-> l, bits |-> s, p |-> 0] : s \in {{}, 0..(l - 1)}} : l \in WrongLengths(length(cd))}

NoOracle ==
    /\ k = 0
    /\ samples = <<>>
    /\ k0 = 0
    /\ pool0 = <<>>
    /\ op = "none"
    /\ a = 0
    /\ b = 0
    /\ i = 0
    /\ panic = ""
    /\ truncates = 0
    /\ result = None
    /\ tau = <<0, 1>>
    /\ tau0 = <<0, 1>>

CInit ==
    /\ debug \in BOOLEAN
    /\ code \in Codes
    /\ word \in Received(code)
    /\ call = "none"
    /\ ret = NoRet
    /\ pc = "codes"
    /\ NoOracle
    /\ NoThreads
    /\ NoPasses

Called(name) ==
    /\ call = "none"
    /\ call' = name
    /\ UNCHANGED <<bkw_vars, code, word, once_vars, pass_vars>>

DecodeToCode ==
    /\ Called("decode_to_code")
    /\ ret' = decode_to_code(code, [len |-> word.len, bits |-> word.bits], debug)

DecodeToMessage ==
    /\ Called("decode_to_message")
    /\ ret' = decode_to_message(code, [len |-> word.len, bits |-> word.bits], debug)

\* The vector lies in word storage.
DecodeSlice ==
    /\ word.len = length(code)
    /\ Called("decode_slice")
    /\ ret' = decode_slice(code, <<BitsToWord(word.bits)>>, debug)

\* The vector is the a of a sample with product bit word.p.
DecodeSample ==
    /\ word.len = length(code)
    /\ Called("decode_sample")
    /\ ret' = decode_sample(code, from_binvector(word, word.p), debug)

CNext ==
    \/ DecodeToCode
    \/ DecodeToMessage
    \/ DecodeSlice
    \/ DecodeSample

SpecCodes == CInit /\ [][CNext]_vars

----------------------------------------------------------------------------
(* Properties of the codes, over SpecCodes *)

\* The syndrome of v, from the rows of the parity check matrix.
Syndrome(cd, v) ==
    LET H == parity_check_matrix(cd)
    IN  {r \in 0..(H.nrows - 1) : Cardinality(H.rows[r + 1] \cap v.bits) % 2 = 1}

SyndromeKey(cd, v) == BitsToWord(Syndrome(cd, v))

\* The vector handed to the call has the length of the code.
HasCodeLength == code \in Codes /\ word.len = length(code)

\* C11: for each of the four codes and every vector x of the code's length, the
\* syndrome of x is a key of the code's syndrome map, and decode_to_code(x)
\* returns Ok(y) with y of the code's length and the syndrome of y zero.
C11_LookupTotalAndParityZero ==
    HasCodeLength =>
        /\ SyndromeKey(code, word) \in MapKeys(SYNDROME_MAP(code))
        /\ call = "decode_to_code" =>
            /\ ret.kind = "Ok"
            /\ ret.len = length(code)
            /\ Syndrome(code, ret) = {}

C11_Witness ==
    /\ HasCodeLength
    /\ call = "decode_to_code"
    /\ code = "10_5"
    /\ ret.kind = "Ok"
    /\ Cardinality(SymDiff(ret.bits, word.bits)) = 2
    /\ Syndrome(code, word) # {}
    /\ Syndrome(code, ret) = {}

\* The messages of a code, and m * G.
Messages(cd) == {[len |-> dimension(cd), bits |-> s] : s \in SUBSET (0..(dimension(cd) - 1))}

TimesG(cd, m) == vec_mul(m, generator_matrix(cd))

\* The vector handed to the call, without the product bit.
Arg == [len |-> word.len, bits |-> word.bits]

\* C12: for each code and every message m, decode_to_message(m * G) = m and
\* decode_to_code(m * G) = m * G.
C12_RoundTrip ==
    HasCodeLength =>
        \A m \in Messages(code) :
            TimesG(code, m) = Arg =>
                /\ call = "decode_to_message" => ret = CodeOk(m)
                /\ call = "decode_to_code" => ret = CodeOk(Arg)

C12_Witness ==
    /\ HasCodeLength
    /\ code = "9_6"
    /\ call = "decode_to_message"
    /\ ret.kind = "Ok"
    /\ ret.len = 6
    /\ Cardinality(ret.bits) = 3
    /\ TimesG(code, [len |-> ret.len, bits |-> ret.bits]) = Arg

\* The codewords of each code, its minimum distance, and the Hamming distance.
CodewordsOf == [cd \in Codes |-> {TimesG(cd, m).bits : m \in Messages(cd)}]

Codewords(cd) == CodewordsOf[cd]

hw(x, y) == Cardinality(SymDiff(x, y))

MinDistanceOf ==
    [cd \in Codes |->
        CHOOSE d \in 1..length(cd) :
            /\ \E cw \in Codewords(cd) : cw # {} /\ Cardinality(cw) = d
            /\ \A cw \in Codewords(cd) : cw # {} => Cardinality(cw) >= d]

MinDistance(cd) == MinDistanceOf[cd]

\* C13: for each code and every vector r of the code's length,
\* decode_to_code(r) is a codeword at least as near to r as every codeword,
\* and a codeword within floor((d - 1) / 2) of r is the one returned.
C13_NearestCodeword ==
    (HasCodeLength /\ call = "decode_to_code") =>
        /\ ret.kind = "Ok"
        /\ ret.bits \in Codewords(code)
        /\ \A cw \in Codewords(code) :
            /\ hw(word.bits, ret.bits) <= hw(word.bits, cw)
            /\ hw(word.bits, cw) <= (MinDistance(code) - 1) \div 2 => ret.bits = cw

C13_Witness ==
    /\ HasCodeLength
    /\ call = "decode_to_code"
    /\ code = "7_2"
    /\ MinDistance(code) = 4
    /\ ret.kind = "Ok"
    /\ ret.bits # {}
    /\ hw(word.bits, ret.bits) = 1

\* The first n positions of a set of positions.
Leading(bits, n) == {j \in bits : j < n}

\* C14: for each code and every vector x of the code's length,
\* decode_to_message(x) is the first dimension bits of decode_to_code(x), and
\* that message times the generator matrix is decode_to_code(x) again; the
\* generator matrix has the identity in its leading dimension columns.
C14_MessageIsLeadingBits ==
    HasCodeLength =>
        /\ \A r \in 1..dimension(code) :
            Leading(generator_matrix(code).rows[r], dimension(code)) = {r - 1}
        /\ call = "decode_to_message" =>
            LET y == decode_to_code(code, Arg, debug)
                m == [len |-> dimension(code), bits |-> Leading(y.bits, dimension(code))]
            IN  /\ y.kind = "Ok"
                /\ ret = CodeOk(m)
                /\ TimesG(code, m) = [len |-> y.len, bits |-> y.bits]

C14_Witness ==
    /\ HasCodeLength
    /\ code = "11_7"
    /\ call = "decode_to_message"
    /\ ret.kind = "Ok"
    /\ ret.len = 7
    /\ ret.bits # Leading(word.bits, 7)
    /\ TimesG(code, [len |-> ret.len, bits |-> ret.bits]) # Arg

\* C15: for each code and every vector x of the code's length held in word
\* storage with no bit at a position >= n, decode_slice leaves in the storage
\* exactly the bits of decode_to_code(x), and no bit at a position >= n.
C15_SliceHoldsDecodedCodeword ==
    (HasCodeLength /\ call = "decode_slice") =>
        LET y == decode_to_code(code, Arg, debug)
        IN  /\ y.kind = "Ok"
            /\ ret.kind = "Ok"
            /\ ret.bits = y.bits
            /\ \A j \in ret.bits : j < length(code)

C15_Witness ==
    /\ HasCodeLength
    /\ call = "decode_slice"
    /\ code = "10_5"
    /\ ret.kind = "Ok"
    /\ word.bits \ ret.bits # {}
    /\ ret.bits \ word.bits # {}
    /\ Syndrome(code, ret) = {}

\* C16: for each code, every vector x of the code's length and each product
\* bit p, decode_sample turns the sample (x, p) into the sample built from
\* decode_to_message(x) and p: no bit of a at or above the dimension, the
\* product bit unchanged.
C16_SampleHoldsDecodedMessage ==
    (HasCodeLength /\ call = "decode_sample") =>
        LET m == decode_to_message(code, Arg, debug)
        IN  /\ m.kind = "Ok"
            /\ ret.kind = "Ok"
            /\ [a |-> ret.bits, p |-> ret.p] = from_binvector(m, word.p)
            /\ \A j \in ret.bits : j < dimension(code)
            /\ ret.p = word.p

C16_Witness ==
    /\ HasCodeLength
    /\ call = "decode_sample"
    /\ code = "7_2"
    /\ word.p = 1
    /\ ret.kind = "Ok"
    /\ ret.p = 1
    /\ ret.bits # Leading(word.bits, 2)
    /\ \E j \in word.bits : j >= 2

\* C17: decode_to_code and decode_to_message return an error value exactly
\* when the length of the vector handed over differs from the code's length:
\* such a vector yields a returned error, neither a panic nor Ok, and a vector
\* of the code's length never yields an error.
C17_LengthErrorReturned ==
    call \in {"decode_to_code", "decode_to_message"} =>
        (ret.kind = "Err" <=> word.len # length(code))

----------------------------------------------------------------------------
(* Threads calling the operations of one code: every read of a table pointer *)
(* is preceded by init(), which is INIT.call_once on the closure that writes *)
(* the four pointers.                                                        *)

\* The number of threads.
MaxThreads == 2

Threads == 1..MaxThreads

TableOps == {"generator_matrix", "parity_check_matrix", "decode_to_code", "decode_slice"}

\* The table pointers an operation reads, in order; each read follows an init().
TableReads(name, dbg) ==
    CASE name = "generator_matrix" -> <<"GENERATOR_MATRIX">>
      [] name = "parity_check_matrix" -> <<"PARITY_MATRIX">>
      [] name = "decode_to_code" ->
            <<"SYNDROME_MAP", "PARITY_MATRIX_T">> \o (IF dbg THEN <<"PARITY_MATRIX_T">> ELSE <<>>)
      [] name = "decode_slice" -> <<"SYNDROME_MAP", "PARITY_MATRIX_T">>

\* The pointers the closure writes, in order.
InitWrites == <<"GENERATOR_MATRIX", "PARITY_MATRIX", "PARITY_MATRIX_T", "SYNDROME_MAP">>

call_once_unguarded(st) == IF st = "INCOMPLETE" THEN "run" ELSE "return"

\* Once::call_once: the first caller runs the closure, a caller that arrives
\* while it runs is blocked until it has completed, a later caller returns.
call_once(st) ==
    CASE st = "INCOMPLETE" -> "run"
      [] st = "RUNNING" -> "block"
      [] st = "COMPLETE" -> "return"

SInit ==
    /\ debug \in BOOLEAN
    /\ INIT = "INCOMPLETE"
    /\ tables = [ptr \in TablePointers |-> 0]
    /\ threads \in [Threads -> {[op |-> name, at |-> 1, pc |-> "init", step |-> 0] : name \in TableOps}]
    /\ init_runs = 0
    /\ pc = "threads"
    /\ NoOracle
    /\ NoCodeCall
    /\ NoPasses

\* init() by the first caller: the closure is entered.
OnceRun(t) ==
    /\ threads[t].pc = "init"
    /\ call_once(INIT) = "run"
    /\ INIT' = "RUNNING"
    /\ init_runs' = init_runs + 1
    /\ threads' = [threads EXCEPT ![t].pc = "closure", ![t].step = 1]
    /\ UNCHANGED <<bkw_vars, code_vars, pass_vars, tables>>

\* One pointer is written by the closure.
InitWrite(t) ==
    /\ threads[t].pc = "closure"
    /\ threads[t].step <= Len(InitWrites)
    /\ tables' = [tables EXCEPT ![InitWrites[threads[t].step]] = @ + 1]
    /\ threads' = [threads EXCEPT ![t].step = @ + 1]
    /\ UNCHANGED <<bkw_vars, code_vars, pass_vars, INIT, init_runs>>

\* The closure has returned: call_once completes and returns.
OnceComplete(t) ==
    /\ threads[t].pc = "closure"
    /\ threads[t].step > Len(InitWrites)
    /\ INIT' = "COMPLETE"
    /\ threads' = [threads EXCEPT ![t].pc = "read", ![t].step = 0]
    /\ UNCHANGED <<bkw_vars, code_vars, pass_vars, tables, init_runs>>

\* init() while another thread runs the closure.
OnceBlock(t) ==
    /\ threads[t].pc = "init"
    /\ call_once(INIT) = "block"
    /\ threads' = [threads EXCEPT ![t].pc = "blocked"]
    /\ UNCHANGED <<bkw_vars, code_vars, pass_vars, INIT, tables, init_runs>>

\* A blocked caller returns once the closure has completed.
OnceWake(t) ==
    /\ threads[t].pc = "blocked"
    /\ INIT = "COMPLETE"
    /\ threads' = [threads EXCEPT ![t].pc = "read"]
    /\ UNCHANGED <<bkw_vars, code_vars, pass_vars, INIT, tables, init_runs>>

\* init() after the closure has completed.
OnceReturn(t) ==
    /\ threads[t].pc = "init"
    /\ call_once(INIT) = "return"
    /\ threads' = [threads EXCEPT ![t].pc = "read"]
    /\ UNCHANGED <<bkw_vars, code_vars, pass_vars, INIT, tables, init_runs>>

\* POINTER.as_ref().unwrap(): a null pointer makes unwrap panic.
ReadTable(t) ==
    /\ threads[t].pc = "read"
    /\ LET reads == TableReads(threads[t].op, debug)
           ptr == reads[threads[t].at]
       IN  threads' = [threads EXCEPT
                ![t].pc = IF tables[ptr] = 0 THEN "panicked"
                          ELSE IF threads[t].at < Len(reads) THEN "init" ELSE "done",
                ![t].at = IF tables[ptr] = 0 THEN @ ELSE @ + 1]
    /\ UNCHANGED <<bkw_vars, code_vars, pass_vars, INIT, tables, init_runs>>

SNext ==
    \E t \in Threads :
        \/ OnceRun(t)
        \/ InitWrite(t)
        \/ OnceComplete(t)
        \/ OnceBlock(t)
        \/ OnceWake(t)
        \/ OnceReturn(t)
        \/ ReadTable(t)

SpecOnce == SInit /\ [][SNext]_vars

\* C18: whatever the threads call and however they interleave, the closure of
\* init is entered at most once and exactly once before any thread gets past
\* init(); a thread about to read a table pointer finds the initialisation
\* completed and the pointer set; each pointer is written once, and never
\* after the initialisation has completed.
C18_InitOnceBeforeAnyRead ==
    /\ init_runs <= 1
    /\ \A ptr \in TablePointers : tables[ptr] <= 1
    /\ INIT = "COMPLETE" => init_runs = 1 /\ \A ptr \in TablePointers : tables[ptr] = 1
    /\ \A t \in DOMAIN threads :
        /\ threads[t].pc \in {"read", "done"} =>
            /\ INIT = "COMPLETE"
            /\ tables[TableReads(threads[t].op, debug)[1]] = 1
        /\ threads[t].pc # "panicked"

C18_Witness ==
    /\ pc = "threads"
    /\ \A t \in Threads : threads[t].pc = "done"
    /\ threads[1].op = "decode_to_code"
    /\ threads[2].op = "generator_matrix"
    /\ init_runs = 1

----------------------------------------------------------------------------
(* Properties of the reduction's bookkeeping, over Spec *)

\* Fractions <<numerator, denominator>>: equality, and the noise of the sum of
\* 2^(a-1) samples of noise t, (1 - (1 - 2t)^(2^(a-1))) / 2.
RatEq(x, y) == x[1] * y[2] = y[1] * x[2]

TauLaw(t, aa) ==
    LET e == Pow2(aa - 1)
    IN  <<t[2] ^ e - (t[2] - 2 * t[1]) ^ e, 2 * t[2] ^ e>>

\* C19: a call of bkw_reduce(oracle, a, b) leaves the oracle's noise parameter
\* untouched while it iterates and has set it, when it returns, to
\* (1 - (1 - 2 tau)^(2^(a-1))) / 2 for the tau it was handed.
C19_TauUpdatedByLaw ==
    /\ pc = "iterate" => tau = tau0
    /\ (ReduceReturned /\ a >= 1 /\ b >= 1) => RatEq(tau, TauLaw(tau0, a))

\* The secrets a pool is tested against: every vector over the positions the
\* pools of dimension kk use; for the unit pools, the secrets they are built from.
Secrets(kk) == IF kk = BigK THEN {{}, {0}, 0..(kk - 1)} ELSE SUBSET Positions(kk)

\* The linear functional (s, t) on a sample: <a, s> + t * p.
Functional(q, s, t) == (Inner(q.a, s) + t * q.p) % 2

Vanishes(pool, s, t) == \A x \in 1..Len(pool) : Functional(pool[x], s, t) = 0

\* C20: before the truncation, every sample of the pool is an XOR of samples
\* handed over, product bits XORed along with a: every linear functional on
\* (a, p) that vanishes on all input samples vanishes on the pool.  With
\* t = 1 this says that p = <a, s> for every input sample implies the same for
\* every sample of the pool.
C20_IterationsAreLinear ==
    (op \in {"bkw", "partition_reduce"} /\ truncates = 0) =>
        \A s \in Secrets(k0), t \in 0..1 :
            Vanishes(pool0, s, t) => Vanishes(samples, s, t)

C20_Witness ==
    /\ op \in {"bkw", "partition_reduce"}
    /\ pc = "iterate"
    /\ truncates = 0
    /\ i >= 2
    /\ b >= 1
    /\ \E x \in 1..Len(samples) :
        /\ samples[x].p = 1
        /\ \A y \in 1..Len(pool0) : pool0[y] # samples[x]
    /\ \E s \in Secrets(k0) : s # {} /\ NoiseFree(pool0, s) /\ NoiseFree(samples, s)


----------------------------------------------------------------------------
(* Successive calls on one oracle *)

\* A whole call partition_reduce(oracle, b) with b < 22, which is
\* bkw_reduce(oracle, 2, b): the assertion, the one pass of the loop on the
\* window [k - b, k), and the truncation to k - b.
partition_reduce_call(o, bb) ==
    IF ~AssertAB(2, bb, o.k)
    THEN [ok |-> FALSE, k |-> o.k, samples |-> o.samples, panic |-> PanicAssertAB]
    ELSE LET out == bkw_reduce_inplace(o.samples, o.k, 1, bb) IN
         IF ~out.ok
         THEN [ok |-> FALSE, k |-> o.k, samples |-> out.samples, panic |-> out.panic]
         ELSE LET f == bkw_reduce_finish([k |-> o.k, samples |-> out.samples], o.k, 2, bb) IN
              [ok |-> TRUE, k |-> f.k, samples |-> f.samples, panic |-> ""]

\* n calls of partition_reduce(oracle, b), one after the other, on the oracle
\* o; a panic ends the sequence.
RECURSIVE partition_reduce_calls(_, _, _)
partition_reduce_calls(o, n, bb) ==
    IF n <= 0 THEN [ok |-> TRUE, k |-> o.k, samples |-> o.samples, panic |-> ""]
    ELSE LET r == partition_reduce_call(o, bb) IN
         IF r.ok
         THEN partition_reduce_calls([k |-> r.k, samples |-> r.samples], n - 1, bb)
         ELSE r

\* The oracle as it was handed over, and a - 1 calls of partition_reduce on it.
Oracle0 == [k |-> k0, samples |-> pool0]

Successive == partition_reduce_calls(Oracle0, a - 1, b)

\* C21: for a >= 1, b < 22 and a*b <= k, bkw_reduce(oracle, a, b) ends as
\* a - 1 successive calls of partition_reduce(oracle, b) on the same oracle
\* end: it panics exactly when one of the calls panics, with the same message,
\* and otherwise leaves the same dimension and the same pool; and bkw(oracle,
\* a, b) ends as majority ends on the oracle the calls leave.
C21_ReduceIsSuccessivePartitionReduce ==
    (/\ op \in {"bkw", "partition_reduce"}
     /\ a >= 1
     /\ b < SortThreshold
     /\ AssertAB(a, b, k0))
    => /\ pc = "majority" \/ (pc = "returned" /\ op = "partition_reduce")
           => /\ Successive.ok
              /\ k = Successive.k
              /\ samples = Successive.samples
       /\ (pc = "panicked" /\ panic \in {PanicIndex, PanicSliceStart})
           => ~Successive.ok /\ Successive.panic = panic
       /\ (op = "bkw" /\ pc = "returned")
           => /\ Successive.ok
              /\ LET m == majority(Successive.samples, Successive.k, debug) IN
                 m.ok /\ m.result = result
       /\ (op = "bkw" /\ pc = "panicked" /\ panic \in {PanicTooLargeB, PanicBucketEmpty})
           => /\ Successive.ok
              /\ LET m == majority(Successive.samples, Successive.k, debug) IN
                 ~m.ok /\ m.panic = panic

\* Two passes of the loop have run and bkw has returned a secret.
C21_Witness ==
    /\ op = "bkw"
    /\ a = 3
    /\ b >= 1
    /\ pc = "returned"
    /\ Len(pool0) - Len(samples) >= 2
    /\ IsSome(result)


----------------------------------------------------------------------------
(* One iteration of either variant, pass by pass: the serial loops are one   *)
(* step per statement that changes the pool, the parallel passes one step    *)
(* per item handed to a worker, in any order.                                *)

MaxPassSamples == 3

PassInputs == {in \in [k : {2}, b : 1..2, i : 1..2] : in.i * in.b <= in.k}

PassPools(kk) == UNION {[1..n -> SampleSpace(kk)] : n \in 0..MaxPassSamples}

PInit ==
    /\ debug = FALSE
    /\ \E in \in PassInputs :
        /\ k = in.k
        /\ b = in.b
        /\ i = in.i
        /\ a = in.i + 1
        /\ samples \in PassPools(in.k)
    /\ k0 = k
    /\ pool0 = samples
    /\ op = "none"
    /\ pc = "passes"
    /\ panic = ""
    /\ truncates = 0
    /\ result = None
    /\ tau = CHOOSE t \in Taus : TRUE
    /\ tau0 = tau
    /\ NoCodeCall
    /\ NoThreads
    /\ NoPasses

PanicSwapRemove == "swap_remove index should be < len"

\* The window of bkw_reduce_inplace and the key range of bkw_reduce_sorted.
InplaceLo == k - b * i

InplaceHi == k - b * (i - 1)

SortedLo == k - i * b

SortedHi == k

\* bkw_reduce_inplace up to the removal loop: the scan of samples[1..], the
\* empty firsts, the sort of firsts_idxs.
InplaceCollect ==
    /\ pc = "passes"
    /\ op' = "bkw_reduce_inplace"
    /\ IF Len(samples) < 1
       THEN /\ pc' = "panicked"
            /\ panic' = PanicSliceStart
            /\ UNCHANGED <<firsts_idxs, firsts, removing>>
       ELSE LET fi == CollectFirsts(samples, InplaceLo, InplaceHi, 1,
                                    [v \in 0..(Pow2(b) - 1) |-> 0])
            IN  /\ firsts_idxs' = fi
                /\ firsts' = [v \in 0..(Pow2(b) - 1) |-> None]
                /\ removing' = DescendingSome({fi[v] : v \in DOMAIN fi} \ {0})
                /\ pc' = "remove"
                /\ panic' = panic
    /\ UNCHANGED <<debug, k, samples, k0, pool0, a, b, i, truncates, result>>
    /\ UNCHANGED <<partitions, pending, writes, removed, xored>>
    /\ UNCHANGED <<tau, tau0, code_vars, once_vars>>

\* One round of the removal loop: swap_remove(idx), then firsts[idx] = Some(item).
InplaceRemove ==
    /\ pc = "remove"
    /\ op = "bkw_reduce_inplace"
    /\ removing # <<>>
    /\ LET idx == Head(removing) IN
       IF idx >= Len(samples)
       THEN /\ pc' = "panicked"
            /\ panic' = PanicSwapRemove
            /\ UNCHANGED <<samples, firsts, removing, removed>>
       ELSE /\ samples' = swap_remove(samples, idx)
            /\ removed' = Append(removed, samples[idx + 1])
            /\ removing' = Tail(removing)
            /\ IF idx >= Pow2(b)
               THEN pc' = "panicked" /\ panic' = PanicIndex /\ firsts' = firsts
               ELSE /\ pc' = pc
                    /\ panic' = panic
                    /\ firsts' = [firsts EXCEPT ![idx] = Some(samples[idx + 1])]
    /\ UNCHANGED <<debug, k, k0, pool0, op, a, b, i, truncates, result>>
    /\ UNCHANGED <<firsts_idxs, partitions, pending, writes, xored>>
    /\ UNCHANGED <<tau, tau0, code_vars, once_vars>>

\* par_iter_mut hands every sample left in the pool to a worker.
InplaceXorBegin ==
    /\ pc = "remove"
    /\ op = "bkw_reduce_inplace"
    /\ removing = <<>>
    /\ pc' = "xor"
    /\ pending' = 0..(Len(samples) - 1)
    /\ UNCHANGED <<debug, k, samples, k0, pool0, op, a, b, i, panic, truncates, result>>
    /\ UNCHANGED <<firsts_idxs, firsts, partitions, removing, writes, removed, xored>>
    /\ UNCHANGED <<tau, tau0, code_vars, once_vars>>

\* The closure of the parallel pass on the sample of Rust index x.
InplaceXor ==
    /\ pc = "xor"
    /\ op = "bkw_reduce_inplace"
    /\ \E x \in pending :
        LET q == samples[x + 1]
            idx == query_bits_range(q, InplaceLo, InplaceHi)
        IN  /\ pending' = pending \ {x}
            /\ IF IsSome(firsts[idx])
               THEN /\ samples' = [samples EXCEPT ![x + 1] = xor_into(q, Unwrap(firsts[idx]))]
                    /\ writes' = writes \cup {<<x, x>>}
               ELSE UNCHANGED <<samples, writes>>
    /\ UNCHANGED <<debug, k, k0, pool0, op, a, b, i, pc, panic, truncates, result>>
    /\ UNCHANGED <<firsts_idxs, firsts, partitions, removing, removed, xored>>
    /\ UNCHANGED <<tau, tau0, code_vars, once_vars>>

\* for_each returns when every closure call has returned; so does the function.
InplaceReturn ==
    /\ pc = "xor"
    /\ op = "bkw_reduce_inplace"
    /\ pending = {}
    /\ pc' = "returned"
    /\ xored' = TRUE
    /\ UNCHANGED <<debug, k, samples, k0, pool0, op, a, b, i, panic, truncates, result>>
    /\ UNCHANGED <<firsts_idxs, firsts, partitions, removing, pending, writes, removed>>
    /\ UNCHANGED <<tau, tau0, code_vars, once_vars>>

\* bkw_reduce_sorted: the sort.
SortedSort ==
    /\ pc = "passes"
    /\ op' = "bkw_reduce_sorted"
    /\ \E t \in par_sort_unstable_by_key(samples, SortedLo, SortedHi) : samples' = t
    /\ pc' = "split"
    /\ UNCHANGED <<debug, k, k0, pool0, a, b, i, panic, truncates, result>>
    /\ UNCHANGED pass_vars
    /\ UNCHANGED <<tau, tau0, code_vars, once_vars>>

\* The while loop that splits the pool; par_iter_mut then hands every
\* partition to a worker.
SortedSplit ==
    /\ pc = "split"
    /\ partitions' = Partitions(samples, SortedLo, SortedHi, 0)
    /\ pending' = 1..Len(partitions')
    /\ pc' = "xor"
    /\ UNCHANGED <<debug, k, samples, k0, pool0, op, a, b, i, panic, truncates, result>>
    /\ UNCHANGED <<firsts_idxs, firsts, removing, writes, removed, xored>>
    /\ UNCHANGED <<tau, tau0, code_vars, once_vars>>

\* The closure of the parallel pass on partition n: first is a copy of
\* partition[0], and every other sample of the partition is XORed with it.
SortedXor ==
    /\ pc = "xor"
    /\ op = "bkw_reduce_sorted"
    /\ \E n \in pending :
        LET part == partitions[n]
            first == samples[part.start + 1]
            rest == (part.start + 1)..(part.start + part.len - 1)
        IN  /\ pending' = pending \ {n}
            /\ samples' = [x \in 1..Len(samples) |->
                             IF (x - 1) \in rest THEN xor_into(samples[x], first)
                             ELSE samples[x]]
            /\ writes' = writes \cup {<<n, x>> : x \in rest}
    /\ UNCHANGED <<debug, k, k0, pool0, op, a, b, i, pc, panic, truncates, result>>
    /\ UNCHANGED <<firsts_idxs, firsts, partitions, removing, removed, xored>>
    /\ UNCHANGED <<tau, tau0, code_vars, once_vars>>

\* The indexes are collected without waiting for the workers.
SortedFirsts_not_joined ==
    /\ pc = "xor"
    /\ op = "bkw_reduce_sorted"
    /\ xored' = TRUE
    /\ removing' = FirstsOfPartitions(partitions)
    /\ pc' = "remove"
    /\ UNCHANGED <<debug, k, samples, k0, pool0, op, a, b, i, panic, truncates, result>>
    /\ UNCHANGED <<firsts_idxs, firsts, partitions, pending, writes, removed>>
    /\ UNCHANGED <<tau, tau0, code_vars, once_vars>>

\* for_each has returned; the indexes of the partitions' first samples are
\* collected, last partition first.
SortedFirsts ==
    /\ pc = "xor"
    /\ op = "bkw_reduce_sorted"
    /\ pending = {}
    /\ xored' = TRUE
    /\ removing' = FirstsOfPartitions(partitions)
    /\ pc' = "remove"
    /\ UNCHANGED <<debug, k, samples, k0, pool0, op, a, b, i, panic, truncates, result>>
    /\ UNCHANGED <<firsts_idxs, firsts, partitions, pending, writes, removed>>
    /\ UNCHANGED <<tau, tau0, code_vars, once_vars>>

\* One round of the final loop: swap_remove(index).
SortedRemove ==
    /\ pc = "remove"
    /\ op = "bkw_reduce_sorted"
    /\ removing # <<>>
    /\ LET index == Head(removing) IN
       IF index >= Len(samples)
       THEN /\ pc' = "panicked"
            /\ panic' = PanicSwapRemove
            /\ UNCHANGED <<samples, removing, removed>>
       ELSE /\ samples' = swap_remove(samples, index)
            /\ removed' = Append(removed, samples[index + 1])
            /\ removing' = Tail(removing)
            /\ UNCHANGED <<pc, panic>>
    /\ UNCHANGED <<debug, k, k0, pool0, op, a, b, i, truncates, result>>
    /\ UNCHANGED <<firsts_idxs, firsts, partitions, pending, writes, xored>>
    /\ UNCHANGED <<tau, tau0, code_vars, once_vars>>

SortedReturn ==
    /\ pc = "remove"
    /\ op = "bkw_reduce_sorted"
    /\ removing = <<>>
    /\ pc' = "returned"
    /\ UNCHANGED <<debug, k, samples, k0, pool0, op, a, b, i, panic, truncates, result>>
    /\ UNCHANGED pass_vars
    /\ UNCHANGED <<tau, tau0, code_vars, once_vars>>

PNext ==
    \/ InplaceCollect
    \/ InplaceRemove
    \/ InplaceXorBegin
    \/ InplaceXor
    \/ InplaceReturn
    \/ SortedSort
    \/ SortedSplit
    \/ SortedXor
    \/ SortedFirsts
    \/ SortedRemove
    \/ SortedReturn

SpecPasses == PInit /\ [][PNext]_vars

\* The pass-by-pass run of a variant ends as the variant's function says.
PassesAgree ==
    /\ (op = "bkw_reduce_inplace" /\ pc \in {"returned", "panicked"})
        => LET out == bkw_reduce_inplace(pool0, k, i, b) IN
           /\ out.ok = (pc = "returned")
           /\ out.samples = samples
           /\ out.panic = panic
    /\ (op = "bkw_reduce_sorted" /\ pc \in {"returned", "panicked"})
        => /\ pc = "returned"
           /\ samples \in bkw_reduce_sorted(pool0, k, i, b)


\* The window value of a sample in the iteration of the pass-by-pass run.
Window(q) == query_bits_range(q, InplaceLo, InplaceHi)

\* The pool handed over without the samples at the recorded indexes, in the
\* order the removal loop leaves.
NonPivots == SwapRemoveAll(pool0, DescendingSome({firsts_idxs[v] : v \in DOMAIN firsts_idxs} \ {0}))

\* C22: in the indexing variant the pivot recorded for a bucket value v is the
\* first scanned sample whose window value is v, and when the iteration
\* returns every remaining sample whose window value v has a recorded pivot is
\* that sample XORed with that pivot, and every other remaining sample is
\* unchanged.
C22_XoredWithPivotOfOwnWindow ==
    (op = "bkw_reduce_inplace" /\ pc = "returned")
    => /\ \A v \in DOMAIN firsts_idxs :
            firsts_idxs[v] # 0
            => /\ Window(pool0[firsts_idxs[v] + 1]) = v
               /\ \A x \in 1..(firsts_idxs[v] - 1) : Window(pool0[x + 1]) # v
       /\ samples = [x \in 1..Len(NonPivots) |->
                        LET q == NonPivots[x] IN
                        IF firsts_idxs[Window(q)] # 0
                        THEN xor_into(q, pool0[firsts_idxs[Window(q)] + 1])
                        ELSE q]

\* C23: the scan of the indexing variant stops early only when every bucket
\* has a pivot, so after the first pass of the loop every window value that
\* occurs in samples[1..] of the pool handed over has had its pivot removed:
\* the pool is shorter by the number of those values.
C23_EveryScannedValueHasPivot ==
    (/\ op \in {"bkw", "partition_reduce"}
     /\ pc = "iterate"
     /\ i = 2
     /\ b >= 1
     /\ b < SortThreshold)
    => Len(pool0) - Len(samples)
           = Cardinality({query_bits_range(pool0[x], k0 - b, k0) : x \in 2..Len(pool0)})


\* The number of pivots the iteration has selected.
SelectedPivots ==
    IF op = "bkw_reduce_inplace"
    THEN Cardinality({v \in DOMAIN firsts_idxs : firsts_idxs[v] # 0})
    ELSE Len(partitions)

StrictlyDescending(idxs) == \A n \in 1..(Len(idxs) - 1) : idxs[n] > idxs[n + 1]

\* A round of a removal loop.
RemovalStep == removed' # removed

\* C24: in both variants the indexes handed to swap_remove are strictly
\* descending and each is in range; a round of the removal loop takes out
\* exactly the sample at its index and no other, and leaves the sample at every
\* index still to be removed in place; the pool and the removed samples
\* together always number the samples handed over, and when the iteration
\* returns the pool is shorter by the number of the selected pivots.
C24_RemovedAreThePivots ==
    /\ [](/\ StrictlyDescending(removing)
          /\ panic # PanicSwapRemove
          /\ Len(samples) + Len(removed) = Len(pool0)
          /\ pc = "returned" => Len(pool0) - Len(samples) = SelectedPivots)
    /\ [][RemovalStep
          => /\ removed' = Append(removed, samples[Head(removing) + 1])
             /\ SameMultiset(samples, Append(samples', samples[Head(removing) + 1]))
             /\ \A n \in 2..Len(removing) :
                    /\ removing[n] < Len(samples')
                    /\ samples'[removing[n] + 1] = samples[removing[n] + 1]]_vars

\* The indexing variant has removed two pivots, kept a sample and returned.
C24_Witness ==
    /\ op = "bkw_reduce_inplace"
    /\ pc = "returned"
    /\ Len(removed) = 2
    /\ Len(samples) >= 1


\* The partition of the sorted pool that holds the Rust index x.
PartitionOf(x) ==
    CHOOSE n \in 1..Len(partitions) :
        partitions[n].start <= x /\ x < partitions[n].start + partitions[n].len

\* The sorted pool as it was when the parallel pass began: XORing the first
\* of its partition into a sample a second time undoes what its worker did.
BeforeSortedXor ==
    [x \in 1..Len(samples) |->
        IF PartitionOf(x - 1) \in pending THEN samples[x]
        ELSE XorPartitions(samples, partitions)[x]]

\* C25: during the parallel XOR pass of either variant no sample is written by
\* two workers, and what a worker reads as a pivot (an entry of firsts, the
\* first sample of a partition) is written by no step of the pass; whatever
\* the order of the workers, a sample a worker has handled is the sample of
\* the pool the pass began with XORed as the variant's function says, and
\* every other sample is as it was, so the pool the pass leaves is one.
C25_XorPassIsRaceFree ==
    /\ [](/\ \A w1 \in writes, w2 \in writes : w1[2] = w2[2] => w1[1] = w2[1]
          /\ op = "bkw_reduce_sorted"
                => \A w \in writes, n \in 1..Len(partitions) : w[2] # partitions[n].start
          /\ (op = "bkw_reduce_inplace" /\ pc \in {"xor", "returned"})
                => samples = [x \in 1..Len(NonPivots) |->
                                IF (x - 1) \in pending THEN NonPivots[x]
                                ELSE XorFirsts(NonPivots, InplaceLo, InplaceHi, firsts)[x]]
          /\ (op = "bkw_reduce_sorted" /\ pc = "xor")
                => /\ BeforeSortedXor \in par_sort_unstable_by_key(pool0, SortedLo, SortedHi)
                   /\ Partitions(BeforeSortedXor, SortedLo, SortedHi, 0) = partitions)
    /\ [][pc = "xor"
          => /\ firsts' = firsts
             /\ partitions' = partitions
             /\ op = "bkw_reduce_sorted"
                    => \A n \in 1..Len(partitions) :
                          samples'[partitions[n].start + 1] = samples[partitions[n].start + 1]]_vars

\* The pass of the indexing variant is complete and two workers have written.
C25_Witness ==
    /\ op = "bkw_reduce_inplace"
    /\ pc = "xor"
    /\ pending = {}
    /\ Cardinality({w[1] : w \in writes}) >= 2


\* C26 as stated: in every iteration of either variant a pivot is removed
\* from the pool only after the parallel XOR pass of the iteration has
\* completed.
C26_RemovedOnlyAfterXorPass == removed # <<>> => xored

\* C26, amended: in every iteration pivots are removed serially, one
\* swap_remove per round, and never while the parallel XOR pass runs; the
\* sorting variant removes them only after the pass has completed, the
\* indexing variant before the pass begins, which it does only when all of
\* them have been removed.
C26_RemovalNeverDuringXorPass ==
    /\ []((pc = "xor" /\ op = "bkw_reduce_inplace") => removing = <<>>)
    /\ [][RemovalStep
          => /\ pc = "remove"
             /\ pending = {}
             /\ Len(removed') = Len(removed) + 1
             /\ op = "bkw_reduce_sorted" => xored
             /\ op = "bkw_reduce_inplace" => ~xored /\ writes = {}]_vars

\* The indexing variant runs its parallel pass on a pool it has already taken
\* a pivot out of.
C26_Witness ==
    /\ op = "bkw_reduce_inplace"
    /\ pc = "xor"
    /\ removed # <<>>
    /\ writes # {}
    /\ pending # {}


\* The key of a sample in bkw_reduce_sorted: the bits [k - i*b, k) of a.
Key(q) == query_bits_range(q, SortedLo, SortedHi)

KeysOf(s) == {Key(s[x]) : x \in 1..Len(s)}

\* C27: bkw_reduce_sorted splits the sorted pool into runs that follow one
\* another without gap or overlap from the first sample to the last, each of
\* at least one sample, all samples of a run having the key of its first and
\* neighbouring runs having different keys; when it returns it has removed one
\* sample per key value that occurs in the pool handed over, the removed
\* samples having pairwise different keys, and every sample left has all bits
\* of [k - i*b, k) zero, the pool being the one the XOR of each run's first
\* into the others of the run and the removal of the firsts leave.
C27_SortedRunsReduced ==
    op = "bkw_reduce_sorted"
    => /\ pc = "xor"
            => LET t == BeforeSortedXor
                   n == Len(partitions)
               IN  /\ SameMultiset(t, pool0)
                   /\ (n = 0) = (Len(t) = 0)
                   /\ n > 0 => /\ partitions[1].start = 0
                               /\ partitions[n].start + partitions[n].len = Len(t)
                   /\ \A m \in 1..n :
                        /\ partitions[m].len >= 1
                        /\ \A x \in 1..partitions[m].len :
                              Key(t[partitions[m].start + x]) = Key(t[partitions[m].start + 1])
                   /\ \A m \in 1..(n - 1) :
                        /\ partitions[m + 1].start = partitions[m].start + partitions[m].len
                        /\ Key(t[partitions[m + 1].start + 1]) # Key(t[partitions[m].start + 1])
       /\ pc = "returned"
            => /\ Len(removed) = Cardinality(KeysOf(pool0))
               /\ KeysOf(removed) = KeysOf(pool0)
               /\ \A x \in 1..Len(samples) : Key(samples[x]) = 0
               /\ samples \in bkw_reduce_sorted(pool0, k, i, b)

\* The key spans two windows; two runs lost their firsts and a sample whose
\* key was not zero is left with key zero.
C27_Witness ==
    /\ op = "bkw_reduce_sorted"
    /\ pc = "returned"
    /\ i = 2
    /\ Len(removed) = 2
    /\ Len(samples) = 1
    /\ \A x \in 1..Len(pool0) : Key(pool0[x]) # 0


\* C28: bkw_reduce_inplace on a pool of at least one sample never indexes
\* firsts_idxs or firsts outside [0, 2^b): no run of it ends in a panic.
C28_NoIndexOutOfBounds ==
    (op = "bkw_reduce_inplace" /\ Len(pool0) >= 1)
    => pc # "panicked" /\ panic = ""


\* C29: for every a >= 0 and b with a*b <= k, a = 0 included, bkw_reduce
\* computes k - b*i and k - (a - 1)*b without unsigned overflow and leaves a
\* dimension in [0, k]; with a = 1 it makes no pass of the loop and leaves the
\* pool and k as they were.
C29_NoUnderflow ==
    (op = "bkw" /\ AssertAB(a, b, k0))
    => /\ panic # PanicSubOverflow
       /\ pc = "iterate" => (k0 - b * i >= 0 \/ ~(i < a))
       /\ pc \in {"majority", "returned"} => (0 <= k /\ k <= k0)
       /\ (a = 1 /\ pc \in {"majority", "returned"})
            => k = k0 /\ samples = pool0 /\ i = 1


\* C30: for each code, every x of the code's length and every codeword c,
\* decode_to_code(x XOR c) = decode_to_code(x) XOR c: the error pattern that
\* is added to x and to x XOR c is the same.
C30_DecodingCommutesWithCodewords ==
    (HasCodeLength /\ call = "decode_to_code")
    => /\ ret.kind = "Ok"
       /\ \A cw \in Codewords(code) :
            LET shifted == decode_to_code(code, [len |-> word.len, bits |-> SymDiff(word.bits, cw)], debug)
            IN  /\ shifted.kind = "Ok"
                /\ shifted.len = ret.len
                /\ shifted.bits = SymDiff(ret.bits, cw)
                /\ SymDiff(SymDiff(word.bits, cw), shifted.bits) = SymDiff(word.bits, ret.bits)

\* A word that is not a codeword was decoded, and a non-zero codeword exists
\* to shift it by.
C30_Witness ==
    /\ HasCodeLength
    /\ call = "decode_to_code"
    /\ ret.kind = "Ok"
    /\ ret.bits # word.bits
    /\ \E cw \in Codewords(code) : cw # {} /\ cw # ret.bits

=============================================================================
